---- MODULE Spec2Model ----
(***************************************************************************)
(* A model of zauberhaus/map_utils: the eager map operations of maps.go    *)
(* and the lazy sequence adapters (RemapFuncSeq, WeightFuncSeq,            *)
(* SliceFuncSeq) they are built on.                                        *)
(*                                                                         *)
(* A caller owns one map m.  From "idle" it calls one operation with       *)
(* inputs drawn from small sets.  A direct-scan operation (Select,         *)
(* CountFunc, ExistsFunc, ContainsKey, Contains, Delete, First, Last, At,  *)
(* Join) is one action: its range loop runs over a traversal order chosen  *)
(* nondeterministically, as Go leaves map iteration order unspecified.     *)
(* An operation built on an adapter (Remap, Convert, Slice, Summarize,     *)
(* Flatten) and a direct consumption of an adapter run one source entry    *)
(* per step, so that a panic or a consumer declining further elements      *)
(* leaves the iteration where it was.  Return brings the caller back to    *)
(* "idle".                                                                 *)
(***************************************************************************)
EXTENDS Integers, Sequences, FiniteSets, TLC

VARIABLES
  m,          \* the caller's map: a function from its key set to values
  isNil,      \* the caller's map is a nil map (reads as empty)
  pc,         \* "idle" | "run" | "done" | "panic"
  op,         \* the operation called
  arg,        \* its inputs
  m0,         \* the source map as it was when the call was made
  ret,        \* what the call returned: [val, err]
  todo,       \* keys maps.All(m) has not produced yet
  pulled,     \* keys taken from the source sequence, in order
  acc,        \* what the consumer has built so far
  calls,      \* invocations of the per-entry transform (the tests' count++)
  offered,    \* elements the adapter has offered to the consumer
  declinedAt  \* 0, or the number of the element at which the consumer declined

vars == <<m, isNil, pc, op, arg, m0, ret, todo, pulled, acc, calls, offered, declinedAt>>

\* ---------------------------------------------------------------- bounds
MaxKey == 3
MaxVal == 1

Keys == 1..MaxKey
Vals == 0..MaxVal

\* *new(V): the zero value of the value type
Zero == 0

EmptyMap == << >>
Maps == UNION {[S -> Vals] : S \in SUBSET Keys}

Put(r, k, v) == [x \in (DOMAIN r) \cup {k} |-> IF x = k THEN v ELSE r[x]]
Remove(r, k) == [x \in (DOMAIN r) \ {k} |-> r[x]]

\* the orders in which a range over a map with key set S may visit it
RECURSIVE Perms(_)
Perms(S) ==
  IF S = {} THEN {<< >>}
  ELSE UNION {{<<x>> \o p : p \in Perms(S \ {x})} : x \in S}

\* ---------------------------------------------------------------- errors
NoErr == <<"nil">>
ErrEmpty == <<"utils.At: map is empty">>
ErrBounds == <<"utils.At: index oyt of bounds">>
TransformErr(k) == <<"transform failed", k>>
NoVal == <<"no value">>

\* ------------------------------------------------------------ predicates
\* A predicate is the set of (key, value) pairs it accepts.
AllPairs == Keys \X Vals
Holds(p, k, v) == <<k, v>> \in p
Not(p) == AllPairs \ p
\* the predicates callers pass: the value is x, the key is even, the key is at
\* most t (never true for t = 0, always true for t = MaxKey)
PredInputs ==
  {{kv \in AllPairs : kv[2] = x} : x \in Vals}
    \cup {{kv \in AllPairs : kv[1] % 2 = 0}}
    \cup {{kv \in AllPairs : kv[1] <= t} : t \in 0..MaxKey}

\* ---------------------------------------------------- direct-scan operations
RECURSIVE SelectLoop(_, _, _, _)
SelectLoop(mm, p, ord, result) ==
  IF ord = << >> THEN result
  ELSE LET k == Head(ord)
           v == mm[k]
       IN SelectLoop(mm, p, Tail(ord),
                     IF Holds(p, k, v) THEN Put(result, k, v) ELSE result)

\* variant: the loop's test negated
SelectInverted(mm, p, ord) == SelectLoop(mm, Not(p), ord, EmptyMap)

Select(mm, p, ord) == SelectLoop(mm, p, ord, EmptyMap)

RECURSIVE CountLoop(_, _, _, _)
CountLoop(mm, p, ord, cnt) ==
  IF ord = << >> THEN cnt
  ELSE LET k == Head(ord)
       IN CountLoop(mm, p, Tail(ord),
                    IF Holds(p, k, mm[k]) THEN cnt + 1 ELSE cnt)

CountFunc(mm, p, ord) == CountLoop(mm, p, ord, 0)

\* variant: true as soon as an entry satisfies the predicate
RECURSIVE ExistsFuncConventional(_, _, _)
ExistsFuncConventional(mm, p, ord) ==
  IF ord = << >> THEN FALSE
  ELSE IF Holds(p, Head(ord), mm[Head(ord)]) THEN TRUE
  ELSE ExistsFuncConventional(mm, p, Tail(ord))

RECURSIVE ExistsFuncLoop(_, _, _)
ExistsFuncLoop(mm, p, ord) ==
  IF ord = << >> THEN TRUE
  ELSE IF Holds(p, Head(ord), mm[Head(ord)]) THEN FALSE
  ELSE ExistsFuncLoop(mm, p, Tail(ord))

ExistsFunc(mm, p, ord) == ExistsFuncLoop(mm, p, ord)

RECURSIVE ContainsKey(_, _)
ContainsKey(mm, keys) ==
  IF keys = << >> THEN FALSE
  ELSE IF Head(keys) \in DOMAIN mm THEN TRUE
  ELSE ContainsKey(mm, Tail(keys))

RECURSIVE Contains(_, _, _)
Contains(mm, p, ord) ==
  IF ord = << >> THEN FALSE
  ELSE IF Holds(p, Head(ord), mm[Head(ord)]) THEN TRUE
  ELSE Contains(mm, p, Tail(ord))

\* Delete's first loop: the keys to delete, in traversal order
RECURSIVE DeleteCollect(_, _, _, _)
DeleteCollect(mm, p, ord, keys) ==
  IF ord = << >> THEN keys
  ELSE LET k == Head(ord)
       IN DeleteCollect(mm, p, Tail(ord),
                        IF Holds(p, k, mm[k]) THEN Append(keys, k) ELSE keys)

\* Delete's second loop: delete(m, k) for each collected key
RECURSIVE DeleteKeys(_, _)
DeleteKeys(mm, keys) ==
  IF keys = << >> THEN mm
  ELSE DeleteKeys(Remove(mm, Head(keys)), Tail(keys))

\* variant: the second loop stops after its first key
DeleteFirstMatchOnly(mm, p, ord) ==
  LET keys == DeleteCollect(mm, p, ord, << >>)
  IN [m |-> IF keys = << >> THEN mm ELSE Remove(mm, Head(keys)),
      n |-> Len(keys)]

Delete(mm, p, ord) ==
  LET keys == DeleteCollect(mm, p, ord, << >>)
  IN [m |-> DeleteKeys(mm, keys), n |-> Len(keys)]

\* slices.Sort on a key slice: ascending
RECURSIVE InsertSorted(_, _)
InsertSorted(s, x) ==
  IF s = << >> THEN <<x>>
  ELSE IF x <= Head(s) THEN <<x>> \o s
  ELSE <<Head(s)>> \o InsertSorted(Tail(s), x)

RECURSIVE SortLoop(_, _)
SortLoop(s, sorted) ==
  IF s = << >> THEN sorted
  ELSE SortLoop(Tail(s), InsertSorted(sorted, Head(s)))

\* variant: the keys are left in the order maps.Keys produced them
SortKeysMissing(s) == s

SortKeys(s) == SortLoop(s, << >>)

\* variant: index <= 0 in the bounds test
AtZeroRejected(mm, index, ord) ==
  IF Cardinality(DOMAIN mm) = 0 THEN [val |-> Zero, err |-> ErrEmpty]
  ELSE IF index <= 0 \/ index >= Cardinality(DOMAIN mm)
  THEN [val |-> Zero, err |-> ErrBounds]
  ELSE [val |-> mm[SortKeys(ord)[index + 1]], err |-> NoErr]

\* ord: the order in which maps.Keys(m) produced the keys
At(mm, index, ord) ==
  IF Cardinality(DOMAIN mm) = 0 THEN [val |-> Zero, err |-> ErrEmpty]
  ELSE IF index < 0 \/ index >= Cardinality(DOMAIN mm)
  THEN [val |-> Zero, err |-> ErrBounds]
  ELSE [val |-> mm[SortKeys(ord)[index + 1]], err |-> NoErr]

\* variant: no len(m) == 0 guard
FirstUnguarded(mm, ord) == At(mm, 0, ord)

First(mm, ord) ==
  IF Cardinality(DOMAIN mm) = 0 THEN [val |-> Zero, err |-> NoErr]
  ELSE At(mm, 0, ord)

Last(mm, ord) ==
  IF Cardinality(DOMAIN mm) = 0 THEN [val |-> Zero, err |-> NoErr]
  ELSE LET index == Cardinality(DOMAIN mm) - 1
       IN At(mm, index, ord)

\* fmt.Sprintf("%v", n) for a non-negative integer: its decimal digits
Digit(d) == <<"0", "1", "2", "3", "4", "5", "6", "7", "8", "9">>[d + 1]

RECURSIVE Itoa(_)
Itoa(n) == IF n < 10 THEN <<Digit(n)>> ELSE Itoa(n \div 10) \o <<Digit(n % 10)>>

\* strings.Join(entries, sep)
RECURSIVE StringsJoin(_, _)
StringsJoin(entries, sep) ==
  IF entries = << >> THEN << >>
  ELSE IF Len(entries) = 1 THEN Head(entries)
  ELSE Head(entries) \o sep \o StringsJoin(Tail(entries), sep)

RECURSIVE JoinEntries(_, _, _)
JoinEntries(mm, keys, entries) ==
  IF keys = << >> THEN entries
  ELSE LET k == Head(keys)
           v == mm[k]
       IN JoinEntries(mm, Tail(keys), Append(entries, Itoa(k) \o <<"=">> \o Itoa(v)))

\* variant: the entries are rendered in the order maps.Keys produced the keys
JoinUnsorted(mm, sep, ord) == StringsJoin(JoinEntries(mm, ord, << >>), sep)

\* a string is the sequence of its characters
Join(mm, sep, ord) ==
  LET keys == SortKeys(ord)
  IN StringsJoin(JoinEntries(mm, keys, << >>), sep)

\* ------------------------------------------------------------ transforms
\* The caller's callbacks.  A transform fails on the entries whose value is in
\* failOn; over all maps that is every set of failing entries.
FailChoices == {{}} \cup {{x} : x \in Vals}
\* the new key is k % md: every key collides for md = 1, none for md = MaxKey + 1
Mods == 1..(MaxKey + 1)

RemapInputs == [kind : {"remap"}, md : Mods, failOn : FailChoices]
ConvertInputs == [failOn : FailChoices]
SliceInputs == [absentEven : BOOLEAN, failOn : FailChoices]
\* Summarize functions: the key, the value, or either of them as a string
StringWeights == {"keystr", "valstr"}
WeightInputs == {"key", "val"} \cup StringWeights

\* (k, v) -> (k % md, 10k + v, nil), or ("", "", err)
ApplyRemap(t, k, v) ==
  IF v \in t.failOn THEN [key |-> Zero, val |-> Zero, err |-> TransformErr(k)]
  ELSE [key |-> k % t.md, val |-> 10 * k + v, err |-> NoErr]

\* (k, v) -> (10k + v, nil), or (zero, err)
ApplyConvert(t, k, v) ==
  IF v \in t.failOn THEN [val |-> Zero, err |-> TransformErr(k)]
  ELSE [val |-> 10 * k + v, err |-> NoErr]

\* (k, v) -> (&(10k + v), nil), (nil, nil) or (nil, err); a pointer is << >> (nil)
\* or <<x>>
ApplySlice(t, k, v) ==
  IF v \in t.failOn THEN [ptr |-> << >>, err |-> TransformErr(k)]
  ELSE IF t.absentEven /\ k % 2 = 0 THEN [ptr |-> << >>, err |-> NoErr]
  ELSE [ptr |-> <<10 * k + v>>, err |-> NoErr]

ApplyWeight(w, k, v) ==
  CASE w = "key" -> k
    [] w = "val" -> v
    [] w = "keystr" -> Itoa(k)
    [] OTHER -> Itoa(v)

\* the closure tmp that Convert hands to RemapFuncSeq
ConvertTmp(f, key, val) ==
  LET r == ApplyConvert(f, key, val)
  IN IF r.err # NoErr THEN [key |-> key, val |-> Zero, err |-> r.err]
     ELSE [key |-> key, val |-> r.val, err |-> NoErr]

ApplyKV(t, k, v) ==
  IF t.kind = "tmp" THEN ConvertTmp(t.inner, k, v) ELSE ApplyRemap(t, k, v)

\* -------------------------------------------------------------- adapters
\* One iteration of an adapter's range loop over the source entry (k, v); cont is
\* what the consumer's yield returns if an element is offered.  The outcome says
\* how the loop goes on (next), the elements offered (yielded) and the panic value.
\* variant: a failing entry is skipped instead of panicking
RemapFuncSeqSkipsFailure(f, k, v, cont) ==
  LET r == ApplyKV(f, k, v)
  IN IF r.err # NoErr THEN [next |-> "run", err |-> NoErr, yielded |-> << >>]
     ELSE [next |-> IF cont THEN "run" ELSE "done", err |-> NoErr,
           yielded |-> << <<r.key, r.val>> >>]

RemapFuncSeqBody(f, k, v, cont) ==
  LET r == ApplyKV(f, k, v)
  IN IF r.err # NoErr THEN [next |-> "panic", err |-> r.err, yielded |-> << >>]
     ELSE [next |-> IF cont THEN "run" ELSE "done", err |-> NoErr,
           yielded |-> << <<r.key, r.val>> >>]

\* variant: the loop returns when yield asks for more
WeightFuncSeqStopsOnAccept(f, k, v, cont) ==
  LET s == ApplyWeight(f, k, v)
  IN [next |-> IF cont THEN "done" ELSE "run", err |-> NoErr, yielded |-> <<s>>]

WeightFuncSeqBody(f, k, v, cont) ==
  LET s == ApplyWeight(f, k, v)
  IN [next |-> IF cont THEN "run" ELSE "done", err |-> NoErr, yielded |-> <<s>>]

\* variant: a failing entry is treated as an absent result
SliceFuncSeqSkipsFailure(f, k, v, cont) ==
  LET r == ApplySlice(f, k, v)
  IN IF r.err = NoErr /\ r.ptr # << >>
     THEN [next |-> IF cont THEN "run" ELSE "done", err |-> NoErr,
           yielded |-> <<r.ptr[1]>>]
     ELSE [next |-> "run", err |-> NoErr, yielded |-> << >>]

\* variant: yield's result is ignored
SliceFuncSeqIgnoresDecline(f, k, v, cont) ==
  LET r == ApplySlice(f, k, v)
  IN IF r.err # NoErr THEN [next |-> "panic", err |-> r.err, yielded |-> << >>]
     ELSE IF r.ptr # << >>
     THEN [next |-> "run", err |-> NoErr, yielded |-> <<r.ptr[1]>>]
     ELSE [next |-> "run", err |-> NoErr, yielded |-> << >>]

SliceFuncSeqBody(f, k, v, cont) ==
  LET r == ApplySlice(f, k, v)
  IN IF r.err # NoErr THEN [next |-> "panic", err |-> r.err, yielded |-> << >>]
     ELSE IF r.ptr # << >>
     THEN [next |-> IF cont THEN "run" ELSE "done", err |-> NoErr,
           yielded |-> <<r.ptr[1]>>]
     ELSE [next |-> "run", err |-> NoErr, yielded |-> << >>]

\* the key, then the value; the consumer's answer is checked after each
FlattenSeqBody(k, v, cont1, cont2) ==
  IF ~cont1 THEN [next |-> "done", err |-> NoErr, yielded |-> <<k>>]
  ELSE [next |-> IF cont2 THEN "run" ELSE "done", err |-> NoErr, yielded |-> <<k, v>>]

\* ------------------------------------------------------------- consumers
RemapOps == {"Remap", "Convert", "RemapFuncSeq"}
WeightOps == {"Summarize", "WeightFuncSeq"}
SliceOps == {"Slice", "SliceFuncSeq"}
FlattenOps == {"Flatten"}
\* the adapters consumed directly, by a callback that may decline
DirectOps == {"RemapFuncSeq", "WeightFuncSeq", "SliceFuncSeq"}

ConsumerOf(o) ==
  CASE o \in {"Remap", "Convert"} -> "maps.Collect"
    [] o \in {"Slice", "Flatten"} -> "slices.Collect"
    [] o = "Summarize" -> "SumSeq"
    [] OTHER -> "callback"

\* what yield may return: the collectors always ask for more
Answers(o) == IF ConsumerOf(o) = "callback" THEN BOOLEAN ELSE {TRUE}

InitialAcc(o) ==
  CASE ConsumerOf(o) = "maps.Collect" -> EmptyMap
    [] ConsumerOf(o) = "SumSeq" -> Zero
    [] OTHER -> << >>

\* variant: an existing key is not overwritten
MapsCollectKeepsFirst(r, e) == IF e[1] \in DOMAIN r THEN r ELSE Put(r, e[1], e[2])

\* maps.Collect's loop body: r[k] = v
MapsCollectInsert(r, e) == Put(r, e[1], e[2])

\* slice_utils.SumSeq: var sum S, the zero value of the scalar type (0, or "")
InitialSum(f) == IF f \in StringWeights THEN << >> ELSE Zero

\* slice_utils.SumSeq's loop body
SumSeqAdd(sum, s) == sum + s

\* slice_utils.SumSeq's loop body for a string scalar: + concatenates
SumSeqConcat(sum, s) == sum \o s

Consume(o, a, e) ==
  CASE ConsumerOf(o) = "maps.Collect" -> MapsCollectInsert(a, e)
    [] ConsumerOf(o) = "SumSeq" ->
         IF arg.f \in StringWeights THEN SumSeqConcat(a, e) ELSE SumSeqAdd(a, e)
    [] OTHER -> Append(a, e)

RECURSIVE ConsumeAll(_, _, _)
ConsumeAll(o, a, es) ==
  IF es = << >> THEN a ELSE ConsumeAll(o, Consume(o, a, Head(es)), Tail(es))

\* what the call returns once the sequence has been consumed
Returned(o, a) ==
  IF o \in DirectOps THEN [val |-> NoVal, err |-> NoErr] ELSE [val |-> a, err |-> NoErr]

\* ------------------------------------------------------------------ inputs
Indexes == (0 - 1)..(MaxKey + 1)
KeyArgs == 1..(MaxKey + 1)
KeyLists == {<< >>} \cup {<<a>> : a \in KeyArgs} \cup {<<a, b>> : a \in KeyArgs, b \in KeyArgs}
Seps == {<<",", " ">>, <<"|">>}

NoRet == [val |-> NoVal, err |-> NoErr]

\* ------------------------------------------------------------------- state
Init ==
  /\ m \in Maps
  /\ isNil \in IF m = EmptyMap THEN BOOLEAN ELSE {FALSE}
  /\ pc = "idle"
  /\ op = ""
  /\ arg = << >>
  /\ m0 = EmptyMap
  /\ ret = NoRet
  /\ todo = {}
  /\ pulled = << >>
  /\ acc = << >>
  /\ calls = 0
  /\ offered = 0
  /\ declinedAt = 0

\* a direct-scan operation o, called with inputs a, returns r and leaves the
\* caller's map as after
Finish(o, a, r, after) ==
  /\ pc' = "done"
  /\ op' = o
  /\ arg' = a
  /\ m0' = m
  /\ ret' = r
  /\ m' = after
  /\ UNCHANGED <<isNil, todo, pulled, acc, calls, offered, declinedAt>>

\* an adapter-based operation o starts: maps.All(m) is built, nothing is pulled yet
Start(o, a) ==
  /\ pc' = "run"
  /\ op' = o
  /\ arg' = a
  /\ m0' = m
  /\ ret' = NoRet
  /\ todo' = DOMAIN m
  /\ pulled' = << >>
  /\ acc' = IF ConsumerOf(o) = "SumSeq" THEN InitialSum(a.f) ELSE InitialAcc(o)
  /\ calls' = 0
  /\ offered' = 0
  /\ declinedAt' = 0
  /\ UNCHANGED <<m, isNil>>

\* --------------------------------------------------- direct-scan operations
\* variant: Select filters the caller's map in place
CallSelectInPlace ==
  /\ pc = "idle"
  /\ \E p \in PredInputs, ord \in Perms(DOMAIN m) :
       Finish("Select", [p |-> p], [val |-> Select(m, p, ord), err |-> NoErr],
              Select(m, p, ord))

CallSelect ==
  /\ pc = "idle"
  /\ \E p \in PredInputs, ord \in Perms(DOMAIN m) :
       Finish("Select", [p |-> p], [val |-> Select(m, p, ord), err |-> NoErr], m)

CallCountFunc ==
  /\ pc = "idle"
  /\ \E p \in PredInputs, ord \in Perms(DOMAIN m) :
       Finish("CountFunc", [p |-> p], [val |-> CountFunc(m, p, ord), err |-> NoErr], m)

CallExistsFunc ==
  /\ pc = "idle"
  /\ \E p \in PredInputs, ord \in Perms(DOMAIN m) :
       Finish("ExistsFunc", [p |-> p], [val |-> ExistsFunc(m, p, ord), err |-> NoErr], m)

CallContainsKey ==
  /\ pc = "idle"
  /\ \E keys \in KeyLists :
       Finish("ContainsKey", [keys |-> keys],
              [val |-> ContainsKey(m, keys), err |-> NoErr], m)

CallContains ==
  /\ pc = "idle"
  /\ \E p \in PredInputs, ord \in Perms(DOMAIN m) :
       Finish("Contains", [p |-> p], [val |-> Contains(m, p, ord), err |-> NoErr], m)

CallDelete ==
  /\ pc = "idle"
  /\ \E p \in PredInputs, ord \in Perms(DOMAIN m) :
       LET d == Delete(m, p, ord)
       IN Finish("Delete", [p |-> p], [val |-> d.n, err |-> NoErr], d.m)

CallFirst ==
  /\ pc = "idle"
  /\ \E ord \in Perms(DOMAIN m) : Finish("First", << >>, First(m, ord), m)

CallLast ==
  /\ pc = "idle"
  /\ \E ord \in Perms(DOMAIN m) : Finish("Last", << >>, Last(m, ord), m)

CallAt ==
  /\ pc = "idle"
  /\ \E index \in Indexes, ord \in Perms(DOMAIN m) :
       Finish("At", [index |-> index], At(m, index, ord), m)

CallJoin ==
  /\ pc = "idle"
  /\ \E sep \in Seps, ord \in Perms(DOMAIN m) :
       Finish("Join", [sep |-> sep], [val |-> Join(m, sep, ord), err |-> NoErr], m)

\* -------------------------------------------------- adapter-based operations
CallRemap == pc = "idle" /\ \E f \in RemapInputs : Start("Remap", [f |-> f])

CallConvert ==
  pc = "idle" /\ \E f \in ConvertInputs : Start("Convert", [f |-> [kind |-> "tmp", inner |-> f]])

CallSlice == pc = "idle" /\ \E f \in SliceInputs : Start("Slice", [f |-> f])

CallSummarize == pc = "idle" /\ \E f \in WeightInputs : Start("Summarize", [f |-> f])

CallFlatten == pc = "idle" /\ Start("Flatten", << >>)

\* the caller consumes an adapter itself, with a callback that may decline
CallRemapFuncSeq == pc = "idle" /\ \E f \in RemapInputs : Start("RemapFuncSeq", [f |-> f])

CallWeightFuncSeq == pc = "idle" /\ \E f \in WeightInputs : Start("WeightFuncSeq", [f |-> f])

CallSliceFuncSeq == pc = "idle" /\ \E f \in SliceInputs : Start("SliceFuncSeq", [f |-> f])

\* the source entry k has been pulled and the loop body has run with outcome o,
\* invoking the transform ncalls times; declined: the consumer was offered an
\* element and answered that it wants no more
Advance(k, o, ncalls, declined) ==
  /\ todo' = todo \ {k}
  /\ pulled' = Append(pulled, k)
  /\ calls' = calls + ncalls
  /\ offered' = offered + Len(o.yielded)
  /\ acc' = ConsumeAll(op, acc, o.yielded)
  /\ pc' = o.next
  /\ declinedAt' = IF declined THEN offered' ELSE declinedAt
  /\ ret' = CASE o.next = "panic" -> [val |-> NoVal, err |-> o.err]
              [] o.next = "done" -> Returned(op, acc')
              [] OTHER -> ret
  /\ UNCHANGED <<m, isNil, op, arg, m0>>

StepRemapFuncSeq ==
  /\ pc = "run" /\ op \in RemapOps
  /\ \E k \in todo, cont \in Answers(op) :
       LET o == RemapFuncSeqBody(arg.f, k, m[k], cont)
       IN Advance(k, o, 1, o.yielded # << >> /\ ~cont)

StepWeightFuncSeq ==
  /\ pc = "run" /\ op \in WeightOps
  /\ \E k \in todo, cont \in Answers(op) :
       LET o == WeightFuncSeqBody(arg.f, k, m[k], cont)
       IN Advance(k, o, 1, o.yielded # << >> /\ ~cont)

StepSliceFuncSeq ==
  /\ pc = "run" /\ op \in SliceOps
  /\ \E k \in todo, cont \in Answers(op) :
       LET o == SliceFuncSeqBody(arg.f, k, m[k], cont)
       IN Advance(k, o, 1, o.yielded # << >> /\ ~cont)

StepFlattenSeq ==
  /\ pc = "run" /\ op \in FlattenOps
  /\ \E k \in todo, cont1 \in Answers(op), cont2 \in Answers(op) :
       Advance(k, FlattenSeqBody(k, m[k], cont1, cont2), 0, ~cont1 \/ ~cont2)

\* the source sequence is exhausted: the range loop ends and the consumer returns
SeqExhausted ==
  /\ pc = "run" /\ todo = {}
  /\ pc' = "done"
  /\ ret' = Returned(op, acc)
  /\ UNCHANGED <<m, isNil, op, arg, m0, todo, pulled, acc, calls, offered, declinedAt>>

\* the call is over (returned, or its panic recovered): the caller goes on
Return ==
  /\ pc \in {"done", "panic"}
  /\ pc' = "idle"
  /\ op' = ""
  /\ arg' = << >>
  /\ m0' = EmptyMap
  /\ ret' = NoRet
  /\ todo' = {}
  /\ pulled' = << >>
  /\ acc' = << >>
  /\ calls' = 0
  /\ offered' = 0
  /\ declinedAt' = 0
  /\ UNCHANGED <<m, isNil>>

Next ==
  \/ CallSelect
  \/ CallCountFunc
  \/ CallExistsFunc
  \/ CallContainsKey
  \/ CallContains
  \/ CallDelete
  \/ CallFirst
  \/ CallLast
  \/ CallAt
  \/ CallJoin
  \/ CallRemap
  \/ CallConvert
  \/ CallSlice
  \/ CallSummarize
  \/ CallFlatten
  \/ CallRemapFuncSeq
  \/ CallWeightFuncSeq
  \/ CallSliceFuncSeq
  \/ StepRemapFuncSeq
  \/ StepWeightFuncSeq
  \/ StepSliceFuncSeq
  \/ StepFlattenSeq
  \/ SeqExhausted
  \/ Return

Spec == Init /\ [][Next]_vars

\* ------------------------------------------------------------------ claims
LastOf(s) == s[Len(s)]
Size(mm) == Cardinality(DOMAIN mm)
Returns(o) == pc = "done" /\ op = o
Satisfying(mm, p) == {k \in DOMAIN mm : Holds(p, k, mm[k])}

\* C1: after n = Delete(c, p) on a copy c of m, the map c equals Select(m, not p)
\* (same keys, same values) and n equals CountFunc(m, p) on the original m.
DeleteSelectComplement ==
  Returns("Delete") =>
    \A ord \in Perms(DOMAIN m0) :
      /\ m = Select(m0, Not(arg.p), ord)
      /\ ret.val = CountFunc(m0, arg.p, ord)

\* Delete removed two entries and kept at least one
DeleteSelectComplementWitness ==
  Returns("Delete") /\ ret.val = 2 /\ m # EmptyMap

\* C2: Select(m, p) contains exactly the entries of m for which p holds, with
\* their values unchanged, nothing that is not in m, and CountFunc(m, p) is its size.
SelectIsFilter ==
  Returns("Select") =>
    /\ DOMAIN ret.val = Satisfying(m0, arg.p)
    /\ \A k \in DOMAIN ret.val : k \in DOMAIN m0 /\ ret.val[k] = m0[k]
    /\ \A ord \in Perms(DOMAIN m0) : CountFunc(m0, arg.p, ord) = Size(ret.val)

\* Select kept some entries of a three-entry map and dropped others
SelectIsFilterWitness ==
  Returns("Select") /\ Size(m0) = 3 /\ Size(ret.val) \in {1, 2}

\* the transform f fails on at least one entry of mm
HasFailing(mm, f) == \E k \in DOMAIN mm : ApplyKV(f, k, mm[k]).err # NoErr

\* C3: when the transform fails on at least one entry of m, Remap(m, f) and
\* Convert(m, f) never return: whatever the traversal order the call can only end
\* in a panic, which carries the error f gave for the entry just pulled, and no
\* map is returned.
RemapFailureAborts ==
  (op \in {"Remap", "Convert"} /\ HasFailing(m0, arg.f)) =>
    /\ pc # "done"
    /\ pc = "run" => \E k \in todo : ApplyKV(arg.f, k, m0[k]).err # NoErr
    /\ pc = "panic" =>
         /\ ret.val = NoVal
         /\ ret.err # NoErr
         /\ ret.err = ApplyKV(arg.f, LastOf(pulled), m0[LastOf(pulled)]).err

\* Remap panicked after its collector had already stored an entry
RemapFailureAbortsWitness ==
  pc = "panic" /\ op = "Remap" /\ acc # EmptyMap /\ HasFailing(m0, arg.f)

\* the entries pulled so far for which a SliceFuncSeq transform gave an absent result
AbsentPulled ==
  IF op \in SliceOps
  THEN {i \in 1..Len(pulled) : ApplySlice(arg.f, pulled[i], m0[pulled[i]]).ptr = << >>}
  ELSE {}

\* C4 as stated: a consumer declining at the k-th element it is offered, 0 < k < n,
\* has caused at most k invocations of the transform, for every transform.
TransformCallsAtMostK ==
  (op \in DirectOps /\ declinedAt > 0 /\ declinedAt < Size(m0)) => calls <= declinedAt

\* C4 amended: a consumer declining at the k-th element it is offered, 0 < k < n,
\* ends the iteration there: the adapter has returned, nothing more is offered, and
\* the transform has been invoked once per source entry pulled, which is k times
\* plus the number of pulled entries for which a SliceFuncSeq transform gave an
\* absent result (so at most k for RemapFuncSeq and WeightFuncSeq, and for
\* SliceFuncSeq when no pulled entry was absent).
EarlyTermination ==
  (op \in DirectOps /\ declinedAt > 0 /\ declinedAt < Size(m0)) =>
    /\ pc = "done"
    /\ offered = declinedAt
    /\ calls = Len(pulled)
    /\ calls = declinedAt + Cardinality(AbsentPulled)
    /\ op # "SliceFuncSeq" => calls <= declinedAt

\* SliceFuncSeq's consumer declined the first element offered, after an absent result
EarlyTerminationWitness ==
  op = "SliceFuncSeq" /\ declinedAt = 1 /\ calls = 2 /\ Size(m0) = 3

\* C5: At(m, i) returns an error as an ordinary return value, with the zero value,
\* whenever m is empty, i < 0 or i >= size(m), and no error when 0 <= i < size(m).
AtBounds ==
  (pc \in {"done", "panic"} /\ op = "At") =>
    /\ pc = "done"
    /\ (Size(m0) = 0 \/ arg.index < 0 \/ arg.index >= Size(m0)) =>
         (ret.err # NoErr /\ ret.val = Zero)
    /\ (0 <= arg.index /\ arg.index < Size(m0)) => ret.err = NoErr

\* At(emptyMap, 0) failed
AtBoundsWitness ==
  Returns("At") /\ m0 = EmptyMap /\ arg.index = 0 /\ ret.err # NoErr

\* the key of S with exactly i smaller keys in S
IthSmallest(S, i) == CHOOSE k \in S : Cardinality({j \in S : j < k}) = i

FirstLastEmpty ==
  /\ (Returns("First") \/ Returns("Last")) =>
       /\ ret.err = NoErr
       /\ m0 = EmptyMap => ret.val = Zero
  /\ (Returns("At") /\ m0 = EmptyMap) => ret.err # NoErr

\* First returned on a nil map
FirstLastEmptyWitness ==
  Returns("First") /\ m0 = EmptyMap /\ isNil /\ ret = [val |-> Zero, err |-> NoErr]

\* the new key and value the transform of the running call gives for source key k
NewKey(k) == ApplyKV(arg.f, k, m0[k]).key
NewVal(k) == ApplyKV(arg.f, k, m0[k]).val

\* C8: the key set of Remap(m, f) is exactly the set of new keys f produces over
\* the entries of m (so at most size(m) keys), and under each new key it holds the
\* new value of the source entry processed last among those mapped to that key; no
\* collision is reported.
RemapCollisions ==
  Returns("Remap") =>
    /\ ret.err = NoErr
    /\ {pulled[i] : i \in 1..Len(pulled)} = DOMAIN m0
    /\ DOMAIN ret.val = {NewKey(k) : k \in DOMAIN m0}
    /\ Size(ret.val) <= Size(m0)
    /\ \A i \in 1..Len(pulled) :
         (\A j \in (i + 1)..Len(pulled) : NewKey(pulled[j]) # NewKey(pulled[i]))
           => ret.val[NewKey(pulled[i])] = NewVal(pulled[i])

\* two source entries collided and the one with the smaller key was processed later
RemapCollisionsWitness ==
  /\ Returns("Remap")
  /\ Size(ret.val) < Size(m0)
  /\ \E i, j \in 1..Len(pulled) :
       i < j /\ pulled[j] < pulled[i] /\ NewKey(pulled[i]) = NewKey(pulled[j])

\* C9: no step of any operation other than Delete changes the source map (its key
\* set, its values, its being nil), in any sequence of calls and also when a call
\* is aborted by a failing transform; only a Delete call changes it.
SourceOnlyBorrowed ==
  [][(m' # m \/ isNil' # isNil) => (pc = "idle" /\ op' = "Delete")]_vars

\* a Convert call was aborted by its transform with entries already converted
SourceOnlyBorrowedWitness ==
  pc = "panic" /\ op = "Convert" /\ acc # EmptyMap /\ m = m0

\* C10: ExistsFunc(m, p) is true exactly when no entry of m satisfies p, and is
\* always the negation of Contains(m, p).
ExistsFuncInverted ==
  Returns("ExistsFunc") =>
    /\ ret.val = (Satisfying(m0, arg.p) = {})
    /\ \A ord \in Perms(DOMAIN m0) : ret.val = ~Contains(m0, arg.p, ord)

\* ExistsFunc returned false on a map in which some entry satisfies the predicate
ExistsFuncInvertedWitness ==
  Returns("ExistsFunc") /\ ret.val = FALSE /\ Satisfying(m0, arg.p) # {} /\ Size(m0) = 3

\* the scalar the Summarize function of the running call gives for source key k
Weight(k) == ApplyWeight(arg.f, k, m0[k])

\* the sum of the numeric weights of the keys in S
RECURSIVE SumOver(_)
SumOver(S) ==
  IF S = {} THEN 0
  ELSE LET k == CHOOSE x \in S : TRUE IN Weight(k) + SumOver(S \ {k})

\* the string weights of the keys of ks, concatenated in that order
RECURSIVE ConcatAlong(_)
ConcatAlong(ks) ==
  IF ks = << >> THEN << >> ELSE Weight(Head(ks)) \o ConcatAlong(Tail(ks))

\* C11: Summarize(m, f) is the sum of f(k, v) over all entries of m, each entry
\* contributing exactly once (for a string scalar: the concatenation of the
\* results of all entries, each once, in the order they were traversed), and on an
\* empty map it is the zero value of the scalar type.
SummarizeAdditive ==
  Returns("Summarize") =>
    /\ Len(pulled) = Size(m0)
    /\ {pulled[i] : i \in 1..Len(pulled)} = DOMAIN m0
    /\ calls = Size(m0)
    /\ ret.err = NoErr
    /\ ret.val = IF arg.f \in StringWeights THEN ConcatAlong(pulled)
                 ELSE SumOver(DOMAIN m0)
    /\ m0 = EmptyMap => ret.val = IF arg.f \in StringWeights THEN << >> ELSE Zero

\* the keys of a three-entry map were summed
SummarizeAdditiveWitness ==
  Returns("Summarize") /\ arg.f = "key" /\ Size(m0) = 3 /\ ret.val = 6

\* the keys of S in ascending order
RECURSIVE Ascending(_)
Ascending(S) ==
  IF S = {} THEN << >>
  ELSE LET k == CHOOSE x \in S : \A y \in S : x <= y
       IN <<k>> \o Ascending(S \ {k})

\* C12: for string results, Summarize(m, f) is the concatenation of the results in
\* ascending key order, whatever the order in which the entries are traversed.
SummarizeStringKeyOrder ==
  (Returns("Summarize") /\ arg.f \in StringWeights) =>
    ret.val = ConcatAlong(Ascending(DOMAIN m0))

\* "key=value" for the entry of the source map under key k
Rendered(k) == Itoa(k) \o <<"=">> \o Itoa(m0[k])

\* the rendered entries of the keys ks in that order, sep between neighbours only
RECURSIVE Separated(_, _)
Separated(ks, sep) ==
  IF ks = << >> THEN << >>
  ELSE IF Len(ks) = 1 THEN Rendered(ks[1])
  ELSE Rendered(ks[1]) \o sep \o Separated(Tail(ks), sep)

\* C13: Join(m, sep) is the entries of m rendered as "key=value", one per key, in
\* strictly ascending key order, separated by sep with no leading or trailing
\* separator, whatever the traversal order; for an empty map it is the empty string.
JoinKeyOrdered ==
  Returns("Join") =>
    /\ ret.val = Separated(Ascending(DOMAIN m0), arg.sep)
    /\ m0 = EmptyMap => ret.val = << >>
    /\ ret.err = NoErr

\* {1: 0, 2: 1, 3: 0} joined with ", "
JoinKeyOrderedWitness ==
  /\ Returns("Join")
  /\ arg.sep = <<",", " ">>
  /\ ret.val = <<"1", "=", "0", ",", " ", "2", "=", "1", ",", " ", "3", "=", "0">>

\* the adapters whose transform can fail
FailOps == RemapOps \cup SliceOps

\* the error the transform of the running call gives for source key k
ErrOf(k) ==
  IF op \in SliceOps THEN ApplySlice(arg.f, k, m0[k]).err ELSE ApplyKV(arg.f, k, m0[k]).err

\* the transform gives an element to offer for source key k
Present(k) ==
  /\ ErrOf(k) = NoErr
  /\ op \in SliceOps => ApplySlice(arg.f, k, m0[k]).ptr # << >>

\* no pulled entry has failed while the iteration goes on or has returned; after a
\* panic the entry pulled last is the only one that failed, the panic carries its
\* error, and what was offered came from the entries before it
AbortState ==
  op \in FailOps =>
    /\ pc \in {"run", "done"} => \A i \in 1..Len(pulled) : ErrOf(pulled[i]) = NoErr
    /\ pc = "panic" =>
         /\ pulled # << >>
         /\ ErrOf(LastOf(pulled)) # NoErr
         /\ ret = [val |-> NoVal, err |-> ErrOf(LastOf(pulled))]
         /\ \A i \in 1..(Len(pulled) - 1) : ErrOf(pulled[i]) = NoErr
         /\ calls = Len(pulled)
         /\ offered = Cardinality({i \in 1..(Len(pulled) - 1) : Present(pulled[i])})

\* C14: once the transform fails for an entry, RemapFuncSeq and SliceFuncSeq panic
\* with that error; no element derived from the failing entry is offered, and after
\* the panic no further source entry is pulled, the transform is not invoked again
\* and no further element is offered; a failure is never a skipped element.
AdapterFailureAborts ==
  [][/\ AbortState'
     /\ pc = "panic" =>
          /\ pc' = "idle"
          /\ Len(pulled') <= Len(pulled)
          /\ calls' <= calls
          /\ offered' <= offered]_vars

\* SliceFuncSeq panicked after offering an element, with entries still unpulled
AdapterFailureAbortsWitness ==
  pc = "panic" /\ op = "SliceFuncSeq" /\ offered >= 1 /\ todo # {}

====
